---------------------------- MODULE Spec2Model ----------------------------
(***************************************************************************)
(* A model of the rkmemory arena allocator (src/arena_alloc/arena_alloc.c, *)
(* the same code as the single-header src/rkmemory/rkarena.h), built for   *)
(* Linux (mmap / munmap backend) unless a specification says otherwise.    *)
(*                                                                         *)
(* The process heap is a record h:                                         *)
(*   h.arenas  : address -> rkArena struct      (mapped arena headers)     *)
(*   h.pages   : address -> rkAllocPage struct  (mapped page headers)      *)
(*   h.mem     : address -> the bytes of the mapping (index 0..)           *)
(*   h.os      : address -> byte count of the mapping (held regions)       *)
(*   h.brk     : the next address the kernel hands out                     *)
(*   h.acqLog  : the successful Acquire calls, in order                    *)
(*   h.relLog  : the Release calls, in order                               *)
(*   h.halt    : "run", "panic" (rkArenaPanic called exit) or "ub"         *)
(*   h.debug   : RK_DEBUG is defined (assertions are compiled in)          *)
(*   h.platform: "linux" (mmap / munmap) or "windows" (VirtualAllocEx /    *)
(*               VirtualFreeEx), the RK_ARENA_PLATFORM_ macro defined      *)
(*   h.relFails: the kernel fails every release call                       *)
(* Every C function is an operator from a heap (and its arguments) to the  *)
(* heap it leaves and the value it returns.  size_t is WordBytes bytes     *)
(* wide; all size_t arithmetic is modulo SizeMax.                          *)
(***************************************************************************)
EXTENDS Integers, Sequences, FiniteSets, TLC

\* ------------------------------------------------------------------ bounds
\* Width of size_t and of a pointer, in bytes (8 on the real targets).
WordBytes == 1
\* The largest page size a client passes to rkCreateArenaWithPageSize.
MaxPageSize == 2
\* The number of regions the kernel can hand out before it is exhausted.
MaxRegions == 4
\* The regions the kernel can hand out where the client also stores bytes
\* (SpecMem), and the page sizes the client passes there.
MemMaxRegions == 3
MemPageSizes == {1, 2}
\* The number of regions a client initialises in one run.
MaxWrites == 2
\* Where the client also breaks the contract (SpecAny): the regions the
\* kernel can hand out, and the number of pointers the client takes between
\* two resets.
AnyMaxRegions == 3
MaxOut == 2
\* The test program's arena (SpecScn): its page size, sizeof(int) * 20, the
\* byte counts it asks for, and the regions the kernel can hand out.
ScnPageSize == 80
ScnSizes == {20, 70}
ScnMaxRegions == 3
\* Two threads on one arena (SpecRace): the regions the kernel can hand out
\* and the number of pointers the threads take between two resets.
RaceMaxRegions == 4
RaceMaxOut == 3
\* Both platforms, release calls that may fail (SpecOs): the regions the
\* kernel can hand out.
OsMaxRegions == 3
\* Arenas of the largest pages a size_t can name (SpecBig): the regions the
\* kernel can hand out.
BigMaxRegions == 3

SizeMax == 2 ^ (8 * WordBytes)

\* ------------------------------------------------------------ type layout
NULL == 0
\* struct rkAllocPage: region, offset, size, next: four words.
SizeofAllocPage == 4 * WordBytes
\* struct rkArena: pageSize, curr: two words.
SizeofArena == 2 * WordBytes

\* A byte pointer: the mapping it points into and the byte index in it; the
\* null pointer points into no mapping.
Ptr(base, off) == [base |-> base, off |-> off]
NullPtr == Ptr(NULL, 0)
PtrAdd(p, n) == Ptr(p.base, p.off + n)

AddSz(a, b) == (a + b) % SizeMax

Without(f, a) == [x \in (DOMAIN f) \ {a} |-> f[x]]

VARIABLES
    arenas, pages, mem, os, brk, acqLog, relLog, halt, debug, platform, relFails,
    cap,      \* the number of regions the kernel can hand out
    phase,    \* the client: "init", "live", "failed" (Create returned NULL), "freed"
    handle,   \* the rkArena * the client holds
    live,     \* the regions returned to the client since the last Reset
    first,    \* the pointer the arena's first successful allocation returned
    writes,   \* the number of regions the client has initialised
    ret,      \* the last call: what was called, with what, and what it returned
    threads,  \* each thread's frame of rkArenaAlloc: its position and locals
    raced     \* a thread has run while another was inside rkArenaAlloc

heapVars == <<arenas, pages, mem, os, brk, acqLog, relLog, halt, debug, platform, relFails>>
vars == <<arenas, pages, mem, os, brk, acqLog, relLog, halt, debug, platform, relFails,
          cap, phase, handle, live, first, writes, ret, threads, raced>>

Heap == [arenas |-> arenas, pages |-> pages, mem |-> mem, os |-> os,
         brk |-> brk, acqLog |-> acqLog, relLog |-> relLog,
         halt |-> halt, debug |-> debug, platform |-> platform, relFails |-> relFails]

SetHeap(h) ==
    /\ arenas' = h.arenas
    /\ pages' = h.pages
    /\ mem' = h.mem
    /\ os' = h.os
    /\ brk' = h.brk
    /\ acqLog' = h.acqLog
    /\ relLog' = h.relLog
    /\ halt' = h.halt
    /\ debug' = h.debug
    /\ platform' = h.platform
    /\ relFails' = h.relFails

\* ---------------------------------------------------------------- macros
\* RK_ARENA_ASSERT(expr): in a debug build a false expr calls rkArenaPanic,
\* which exits; in a release build it is (void)0.
RK_ARENA_ASSERT(h, expr) ==
    IF h.debug /\ ~expr /\ h.halt = "run" THEN [h EXCEPT !.halt = "panic"] ELSE h

\* A call that returns NULL: as a struct pointer, as a byte pointer.
Fail(h) == [h |-> h, ptr |-> NULL]
FailPtr(h) == [h |-> h, ptr |-> NullPtr]

\* ------------------------------------------------------------ OS backend
\* mmap(NULL, numBytes, ...): the kernel grants a fresh zero-filled mapping
\* (grant) or answers MAP_FAILED, which rkOsMalloc turns into NULL; it never
\* grants a mapping of length 0 (EINVAL).
rkOsMalloc(h, numBytes, grant) ==
    IF ~grant \/ numBytes = 0
    THEN Fail(h)
    ELSE [h |-> [h EXCEPT !.os = h.os @@ (h.brk :> numBytes),
                          !.mem = h.mem @@ (h.brk :> [i \in 0 .. numBytes - 1 |-> 0]),
                          !.brk = h.brk + 1,
                          !.acqLog = Append(h.acqLog, [ptr |-> h.brk, numBytes |-> numBytes])],
          ptr |-> h.brk]

\* The release call and the assertion on its result r.  The kernel releases
\* a mapping it holds unless it fails the call.  Linux: r = munmap(ptr,
\* numBytes), 0 on success and -1 on failure, and the assertion is r == 0.
\* Windows: r = VirtualFreeEx(..., ptr, numBytes, MEM_RELEASE), a BOOL,
\* nonzero on success and 0 (FALSE) on failure, and the assertion is
\* r == FALSE.
rkOsFree(h, ptr, numBytes) ==
    LET released == ptr \in DOMAIN h.os /\ ~h.relFails
        r == IF h.platform = "linux"
             THEN (IF released THEN 0 ELSE -1)
             ELSE (IF released THEN 1 ELSE 0)
        h0 == [h EXCEPT !.relLog = Append(h.relLog, [ptr |-> ptr, numBytes |-> numBytes])]
        h1 == IF released
              THEN [h0 EXCEPT !.os = Without(h.os, ptr),
                              !.arenas = Without(h.arenas, ptr),
                              !.pages = Without(h.pages, ptr),
                              !.mem = Without(h.mem, ptr)]
              ELSE h0
    IN IF h.platform = "linux"
       THEN RK_ARENA_ASSERT(h1, r = 0)
       ELSE RK_ARENA_ASSERT(h1, r = 0)

\* ------------------------------------------------------------ byte access
\* The bytes a client of the page at p.base may touch: those of the mapping
\* that follow the page header.
InRegion(h, p) ==
    /\ p.base \in DOMAIN h.pages
    /\ p.off >= SizeofAllocPage
    /\ p.off < h.os[p.base]

\* bytes[i] = v; a store outside every region is undefined behaviour.
Store(h, p, v) ==
    IF InRegion(h, p)
    THEN [h EXCEPT !.mem[p.base][p.off] = v]
    ELSE [h EXCEPT !.halt = "ub"]

\* bytes[i]
Load(h, p) == IF InRegion(h, p) THEN h.mem[p.base][p.off] ELSE 0

\* ----------------------------------------------------- utility functions
\* rkNewPage that links the page to itself: page->next = page.
rkNewPage_SelfLink(h, size, next, grant) ==
    LET h1 == RK_ARENA_ASSERT(h, size > 0)
        numBytes == AddSz(SizeofAllocPage, size)
        r == rkOsMalloc(h1, numBytes, grant)
        page == r.ptr
    IN IF h1.halt # "run" THEN Fail(h1)
       ELSE IF page = NULL THEN Fail(r.h)
       ELSE [h |-> [r.h EXCEPT !.pages = @ @@
                        (page :> [region |-> Ptr(page, SizeofAllocPage),
                                  offset |-> 0,
                                  size |-> size,
                                  next |-> page])],
             ptr |-> page]

\* rkNewPage that leaves the link unset: page->next = NULL.
rkNewPage_NoLink(h, size, next, grant) ==
    LET h1 == RK_ARENA_ASSERT(h, size > 0)
        numBytes == AddSz(SizeofAllocPage, size)
        r == rkOsMalloc(h1, numBytes, grant)
        page == r.ptr
    IN IF h1.halt # "run" THEN Fail(h1)
       ELSE IF page = NULL THEN Fail(r.h)
       ELSE [h |-> [r.h EXCEPT !.pages = @ @@
                        (page :> [region |-> Ptr(page, SizeofAllocPage),
                                  offset |-> 0,
                                  size |-> size,
                                  next |-> NULL])],
             ptr |-> page]

rkNewPage(h, size, next, grant) ==
    LET h1 == RK_ARENA_ASSERT(h, size > 0)
        numBytes == AddSz(SizeofAllocPage, size)
        r == rkOsMalloc(h1, numBytes, grant)
        page == r.ptr
    IN IF h1.halt # "run" THEN Fail(h1)
       ELSE IF page = NULL THEN Fail(r.h)
       ELSE [h |-> [r.h EXCEPT !.pages = @ @@
                        (page :> [region |-> Ptr(page, SizeofAllocPage),
                                  offset |-> 0,
                                  size |-> size,
                                  next |-> next])],
             ptr |-> page]

rkNewArena(h, pageSize, grantArena, grantPage) ==
    LET r == rkOsMalloc(h, SizeofArena, grantArena)
        arena == r.ptr
        q == rkNewPage(r.h, pageSize, NULL, grantPage)
        page == q.ptr
    IN IF arena = NULL THEN Fail(r.h)
       ELSE IF page = NULL THEN Fail(q.h)
       ELSE [h |-> [q.h EXCEPT !.arenas = @ @@
                        (arena :> [pageSize |-> pageSize, curr |-> page])],
             ptr |-> arena]

\* rkAllocFromPage with the bump left out: page->offset stays where it was.
rkAllocFromPage_NoBump(h, page, numBytes) ==
    LET h1 == RK_ARENA_ASSERT(h, numBytes > 0)
        h2 == RK_ARENA_ASSERT(h1, numBytes <= h.pages[page].size)
        ptr == PtrAdd(h.pages[page].region, h.pages[page].offset)
    IN IF h2.halt # "run" THEN FailPtr(h2)
       ELSE [h |-> h2, ptr |-> ptr]

\* rkAllocFromPage that bumps before it reads the offset: the pointer is
\* region + offset taken after page->offset += numBytes.
rkAllocFromPage_BumpFirst(h, page, numBytes) ==
    LET h1 == RK_ARENA_ASSERT(h, numBytes > 0)
        h2 == RK_ARENA_ASSERT(h1, numBytes <= h.pages[page].size)
        offset == AddSz(h.pages[page].offset, numBytes)
    IN IF h2.halt # "run" THEN FailPtr(h2)
       ELSE [h |-> [h2 EXCEPT !.pages[page].offset = offset],
             ptr |-> PtrAdd(h.pages[page].region, offset)]

rkAllocFromPage(h, page, numBytes) ==
    LET h1 == RK_ARENA_ASSERT(h, numBytes > 0)
        h2 == RK_ARENA_ASSERT(h1, numBytes <= h.pages[page].size)
        ptr == PtrAdd(h.pages[page].region, h.pages[page].offset)
    IN IF h2.halt # "run" THEN FailPtr(h2)
       ELSE [h |-> [h2 EXCEPT !.pages[page].offset = AddSz(@, numBytes)],
             ptr |-> ptr]

\* --------------------------------------------------------- arena interface
rkCreateArenaWithPageSize(h, pageSize, grantArena, grantPage) ==
    rkNewArena(h, pageSize, grantArena, grantPage)

\* The loop of rkFreeArena cut to its first turn: only the head is released.
FreePages_HeadOnly(h, p) ==
    IF p = NULL \/ h.halt # "run" THEN h
    ELSE rkOsFree(h, p, AddSz(SizeofAllocPage, h.pages[p].size))

RECURSIVE FreePages_SizeOnly(_, _)
\* The loop releasing each page by its capacity alone: rkOsFree(p, p->size).
FreePages_SizeOnly(h, p) ==
    IF p = NULL \/ h.halt # "run" THEN h
    ELSE LET q == h.pages[p].next
         IN FreePages_SizeOnly(rkOsFree(h, p, h.pages[p].size), q)

RECURSIVE FreePages(_, _)
\* The while (p) loop of rkFreeArena, from page p on.
FreePages(h, p) ==
    IF p = NULL \/ h.halt # "run" THEN h
    ELSE LET q == h.pages[p].next
         IN FreePages(rkOsFree(h, p, AddSz(SizeofAllocPage, h.pages[p].size)), q)

\* rkFreeArena without its last statement: the pages are released and the
\* arena header is kept.
rkFreeArena_KeepsHeader(h, arena) ==
    LET h1 == RK_ARENA_ASSERT(h, arena # NULL)
    IN IF h1.halt # "run" THEN h1
       ELSE FreePages(h1, h1.arenas[arena].curr)

rkFreeArena(h, arena) ==
    LET h1 == RK_ARENA_ASSERT(h, arena # NULL)
        h2 == FreePages(h1, h1.arenas[arena].curr)
    IN IF h1.halt # "run" THEN h1
       ELSE IF h2.halt # "run" THEN h2
       ELSE rkOsFree(h2, arena, SizeofArena)

\* The loop of rkResetArena cut to its first turn: only the head is rewound.
ResetPages_HeadOnly(h, p) ==
    IF p = NULL THEN h ELSE [h EXCEPT !.pages[p].offset = 0]

RECURSIVE ResetPages(_, _)
\* The for loop of rkResetArena, from page p on.
ResetPages(h, p) ==
    IF p = NULL THEN h
    ELSE ResetPages([h EXCEPT !.pages[p].offset = 0], h.pages[p].next)

RECURSIVE OldestPage(_, _)
\* The last page of the chain from p.
OldestPage(h, p) ==
    IF h.pages[p].next = NULL THEN p
    ELSE OldestPage(h, h.pages[p].next)

\* rkResetArena that also moves the head back to the first page made:
\* arena->curr = the last page of the chain.
rkResetArena_ToOldest(h, arena) ==
    LET h1 == RK_ARENA_ASSERT(h, arena # NULL)
        h2 == ResetPages(h1, h1.arenas[arena].curr)
    IN IF h1.halt # "run" THEN h1
       ELSE [h2 EXCEPT !.arenas[arena].curr = OldestPage(h1, h1.arenas[arena].curr)]

rkResetArena(h, arena) ==
    LET h1 == RK_ARENA_ASSERT(h, arena # NULL)
    IN IF h1.halt # "run" THEN h1
       ELSE ResetPages(h1, h1.arenas[arena].curr)

\* The test with the request left out: currPage->offset > currPage->size.
NoRoom_IgnoresRequest(h, currPage, numBytes) ==
    h.pages[currPage].offset > h.pages[currPage].size

\* The test off by one: currPage->offset + numBytes >= currPage->size.
NoRoom_OffByOne(h, currPage, numBytes) ==
    AddSz(h.pages[currPage].offset, numBytes) >= h.pages[currPage].size

\* currPage->offset + numBytes > currPage->size
NoRoom(h, currPage, numBytes) ==
    AddSz(h.pages[currPage].offset, numBytes) > h.pages[currPage].size

\* rkArenaAlloc that links the new page and then serves the request from
\* the old head: return rkAllocFromPage(currPage, numBytes).
rkArenaAlloc_ServesOldHead(h, arena, numBytes, grant) ==
    LET h1 == RK_ARENA_ASSERT(h, arena # NULL)
        currPage == h.arenas[arena].curr
        r == rkNewPage(h1, h.arenas[arena].pageSize, currPage, grant)
        newPage == r.ptr
    IN IF h1.halt # "run" THEN FailPtr(h1)
       ELSE IF NoRoom(h1, currPage, numBytes)
       THEN IF newPage = NULL
            THEN FailPtr(r.h)
            ELSE rkAllocFromPage([r.h EXCEPT !.arenas[arena].curr = newPage],
                                 currPage, numBytes)
       ELSE rkAllocFromPage(h1, currPage, numBytes)

\* rkArenaAlloc that stores the new page in arena->curr before it tests it
\* for NULL.
rkArenaAlloc_LinksBeforeTest(h, arena, numBytes, grant) ==
    LET h1 == RK_ARENA_ASSERT(h, arena # NULL)
        currPage == h.arenas[arena].curr
        r == rkNewPage(h1, h.arenas[arena].pageSize, currPage, grant)
        newPage == r.ptr
        linked == [r.h EXCEPT !.arenas[arena].curr = newPage]
    IN IF h1.halt # "run" THEN FailPtr(h1)
       ELSE IF NoRoom(h1, currPage, numBytes)
       THEN IF newPage = NULL
            THEN FailPtr(linked)
            ELSE rkAllocFromPage(linked, newPage, numBytes)
       ELSE rkAllocFromPage(h1, currPage, numBytes)

\* rkArenaAlloc that sizes the new page to the request:
\* rkNewPage(numBytes, currPage).
rkArenaAlloc_PageOfRequest(h, arena, numBytes, grant) ==
    LET h1 == RK_ARENA_ASSERT(h, arena # NULL)
        currPage == h.arenas[arena].curr
        r == rkNewPage(h1, numBytes, currPage, grant)
        newPage == r.ptr
    IN IF h1.halt # "run" THEN FailPtr(h1)
       ELSE IF NoRoom(h1, currPage, numBytes)
       THEN IF newPage = NULL
            THEN FailPtr(r.h)
            ELSE rkAllocFromPage([r.h EXCEPT !.arenas[arena].curr = newPage],
                                 newPage, numBytes)
       ELSE rkAllocFromPage(h1, currPage, numBytes)

rkArenaAlloc(h, arena, numBytes, grant) ==
    LET h1 == RK_ARENA_ASSERT(h, arena # NULL)
        currPage == h.arenas[arena].curr
        r == rkNewPage(h1, h.arenas[arena].pageSize, currPage, grant)
        newPage == r.ptr
    IN IF h1.halt # "run" THEN FailPtr(h1)
       ELSE IF NoRoom(h1, currPage, numBytes)
       THEN IF newPage = NULL
            THEN FailPtr(r.h)
            ELSE rkAllocFromPage([r.h EXCEPT !.arenas[arena].curr = newPage],
                                 newPage, numBytes)
       ELSE rkAllocFromPage(h1, currPage, numBytes)

RECURSIVE ZeroBytes_SkipsLast(_, _, _, _)
\* The loop with the bound off by one: i < numBytes - 1.
ZeroBytes_SkipsLast(h, bytes, i, numBytes) ==
    IF i >= numBytes - 1 \/ h.halt # "run" THEN h
    ELSE ZeroBytes_SkipsLast(Store(h, PtrAdd(bytes, i), 0), bytes, i + 1, numBytes)

RECURSIVE ZeroBytes(_, _, _, _)
\* The loop bytes[i] = 0x00 of rkArenaAllocZeroed (memset in rkarena.h),
\* from index i on.
ZeroBytes(h, bytes, i, numBytes) ==
    IF i >= numBytes \/ h.halt # "run" THEN h
    ELSE ZeroBytes(Store(h, PtrAdd(bytes, i), 0), bytes, i + 1, numBytes)

rkArenaAllocZeroed(h, arena, numBytes, grant) ==
    LET h1 == RK_ARENA_ASSERT(h, arena # NULL)
        r == rkArenaAlloc(h1, arena, numBytes, grant)
    IN IF h1.halt # "run" THEN FailPtr(h1)
       ELSE IF r.ptr = NullPtr THEN FailPtr(r.h)
       ELSE [h |-> ZeroBytes(r.h, r.ptr, 0, numBytes), ptr |-> r.ptr]

RECURSIVE CopyBytes_SkipsLast(_, _, _, _, _)
\* A copy loop that stops one byte short of oldSize.
CopyBytes_SkipsLast(h, newBytes, oldBytes, i, oldSize) ==
    IF i + 1 >= oldSize \/ h.halt # "run" THEN h
    ELSE IF ~InRegion(h, PtrAdd(oldBytes, i)) THEN [h EXCEPT !.halt = "ub"]
    ELSE CopyBytes_SkipsLast(Store(h, PtrAdd(newBytes, i), Load(h, PtrAdd(oldBytes, i))),
                             newBytes, oldBytes, i + 1, oldSize)

RECURSIVE CopyBytes(_, _, _, _, _)
\* The loop newBytes[i] = oldBytes[i] of rkArenaRealloc, from index i on; a
\* load outside every region is undefined behaviour.
CopyBytes(h, newBytes, oldBytes, i, oldSize) ==
    IF i >= oldSize \/ h.halt # "run" THEN h
    ELSE IF ~InRegion(h, PtrAdd(oldBytes, i)) THEN [h EXCEPT !.halt = "ub"]
    ELSE CopyBytes(Store(h, PtrAdd(newBytes, i), Load(h, PtrAdd(oldBytes, i))),
                   newBytes, oldBytes, i + 1, oldSize)

rkArenaRealloc(h, arena, ptr, oldSize, newSize, grant) ==
    LET h1 == RK_ARENA_ASSERT(h, arena # NULL)
        h2 == RK_ARENA_ASSERT(h1, ptr # NullPtr)
        h3 == RK_ARENA_ASSERT(h2, oldSize <= newSize)
        r == rkArenaAlloc(h3, arena, newSize, grant)
    IN IF h3.halt # "run" THEN FailPtr(h3)
       ELSE IF r.ptr = NullPtr THEN FailPtr(r.h)
       ELSE [h |-> CopyBytes(r.h, r.ptr, ptr, 0, oldSize), ptr |-> r.ptr]

\* ------------------------------------------------------------- the client
\* The kernel may refuse any request, and refuses every request once cap
\* regions are held.
Grants == IF Cardinality(DOMAIN os) < cap THEN BOOLEAN ELSE {FALSE}

\* The page chain, read from the head: the page addresses, newest first.
\* (q is p->next, loaded once.)
RECURSIVE ChainFrom(_, _)
ChainFrom(h, p) ==
    IF p = NULL THEN <<>>
    ELSE CHOOSE chain \in {<<p>> \o ChainFrom(h, q) : q \in {h.pages[p].next}} : TRUE

Chain == IF handle \in DOMAIN arenas THEN ChainFrom(Heap, arenas[handle].curr) ELSE <<>>

HeadPage == arenas[handle].curr

\* The bytes of the head page not yet handed out are enough for numBytes.
HeadFits(numBytes) == pages[HeadPage].offset + numBytes <= pages[HeadPage].size

\* Some byte of the len bytes at ptr is nonzero.
Dirty(ptr, len) ==
    /\ ptr.base \in DOMAIN mem
    /\ \E k \in DOMAIN mem[ptr.base] :
          /\ k >= ptr.off /\ k < ptr.off + len
          /\ mem[ptr.base][k] # 0

\* The record of a call: the function called, the pointer it returned, the
\* byte count asked for, whether the request fitted the head page, whether
\* the kernel refused a mapping during the call, and whether the bytes
\* returned held a nonzero byte when the call was made; for rkArenaRealloc
\* also the region passed in and its size; and whether the arena passed was
\* NULL.
Called(op, ptr, n, fit, refused, dirty) ==
    [op |-> op, ptr |-> ptr, n |-> n, fit |-> fit, refused |-> refused, dirty |-> dirty,
     old |-> NullPtr, oldSize |-> 0, nullArena |-> FALSE]

NoCall(op) == Called(op, NullPtr, 0, FALSE, FALSE, FALSE)

\* The threads of the client, and the frame of a thread that is not inside
\* rkArenaAlloc.
Threads == {1, 2}
Idle == [pc |-> "idle", numBytes |-> 0, currPage |-> NULL, page |-> NULL,
         ptr |-> NullPtr, offset |-> 0]

\* The process before main's first call, built for one of platforms, the
\* kernel able to hand out regions regions and failing release calls or not
\* as failures says.
InitOn(regions, platforms, failures) ==
    /\ cap = regions
    /\ platform \in platforms
    /\ relFails \in failures
    /\ arenas = <<>>
    /\ pages = <<>>
    /\ mem = <<>>
    /\ os = <<>>
    /\ brk = 1
    /\ acqLog = <<>>
    /\ relLog = <<>>
    /\ halt = "run"
    /\ debug \in BOOLEAN
    /\ phase = "init"
    /\ handle = NULL
    /\ live = <<>>
    /\ first = NullPtr
    /\ writes = 0
    /\ ret = NoCall("none")
    /\ threads = [t \in Threads |-> Idle]
    /\ raced = FALSE

\* The Linux build on a kernel that releases what it is asked to.
InitWith(regions) == InitOn(regions, {"linux"}, {FALSE})

\* What the client records of an allocating call that returned r.ptr, the
\* kernel answering grant to any request made.
Returned(op, r, n, grant, old, oldSize) ==
    /\ ret' = [Called(op, r.ptr, n, HeadFits(n), ~HeadFits(n) /\ ~grant, Dirty(r.ptr, n))
                 EXCEPT !.old = old, !.oldSize = oldSize]
    /\ live' = IF r.ptr = NullPtr THEN live ELSE Append(live, [ptr |-> r.ptr, len |-> n])
    /\ first' = IF first = NullPtr THEN r.ptr ELSE first

Init == InitWith(MaxRegions)

InitMem == InitWith(MemMaxRegions)

\* arena = rkCreateArenaWithPageSize(pageSize), pageSize one of pageSizes
CreateWith(pageSizes) ==
    /\ phase = "init" /\ halt = "run"
    /\ \E pageSize \in pageSizes, grantArena \in BOOLEAN, grantPage \in BOOLEAN :
         LET r == rkCreateArenaWithPageSize(Heap, pageSize, grantArena, grantPage)
         IN /\ SetHeap(r.h)
            /\ handle' = r.ptr
            /\ phase' = IF r.ptr = NULL THEN "failed" ELSE "live"
            /\ ret' = Called("Create", NullPtr, pageSize, FALSE,
                           ~grantArena \/ ~grantPage, FALSE)
    /\ UNCHANGED <<cap, threads, raced, live, first, writes>>

Create == CreateWith(1 .. MaxPageSize)

CreateMem == CreateWith(MemPageSizes)

\* ptr = rkArenaAlloc(arena, numBytes), 0 < numBytes <= pageSize
Alloc ==
    /\ phase = "live" /\ halt = "run"
    /\ \E numBytes \in 1 .. arenas[handle].pageSize, grant \in Grants :
         LET r == rkArenaAlloc(Heap, handle, numBytes, grant)
         IN /\ SetHeap(r.h)
            /\ Returned("Alloc", r, numBytes, grant, NullPtr, 0)
    /\ UNCHANGED <<cap, threads, raced, phase, handle, writes>>

\* ptr = rkArenaAllocZeroed(arena, numBytes), 0 < numBytes <= pageSize
AllocZeroed ==
    /\ phase = "live" /\ halt = "run"
    /\ \E numBytes \in 1 .. arenas[handle].pageSize, grant \in Grants :
         LET r == rkArenaAllocZeroed(Heap, handle, numBytes, grant)
         IN /\ SetHeap(r.h)
            /\ Returned("AllocZeroed", r, numBytes, grant, NullPtr, 0)
    /\ UNCHANGED <<cap, threads, raced, phase, handle, writes>>

\* ptr = rkArenaRealloc(arena, old, oldSize, newSize) of a region returned
\* since the last reset, oldSize <= newSize <= pageSize
Realloc ==
    /\ phase = "live" /\ halt = "run"
    /\ \E i \in 1 .. Len(live), grant \in Grants :
         \E newSize \in live[i].len .. arenas[handle].pageSize :
           LET r == rkArenaRealloc(Heap, handle, live[i].ptr, live[i].len, newSize, grant)
           IN /\ SetHeap(r.h)
              /\ Returned("Realloc", r, newSize, grant, live[i].ptr, live[i].len)
    /\ UNCHANGED <<cap, threads, raced, phase, handle, writes>>

\* rkResetArena(arena): every pointer returned so far is invalid from now on.
Reset ==
    /\ phase = "live" /\ halt = "run"
    /\ SetHeap(rkResetArena(Heap, handle))
    /\ live' = <<>>
    /\ ret' = NoCall("Reset")
    /\ UNCHANGED <<cap, threads, raced, phase, handle, first, writes>>

\* rkFreeArena(arena)
Free ==
    /\ phase = "live" /\ halt = "run"
    /\ SetHeap(rkFreeArena(Heap, handle))
    /\ phase' = "freed"
    /\ live' = <<>>
    /\ ret' = NoCall("Free")
    /\ UNCHANGED <<cap, threads, raced, handle, first, writes>>

RECURSIVE FillBytes(_, _, _, _)
\* for (i = 0; i < len; i++) bytes[i] = i + 1, from index i on.
FillBytes(h, bytes, i, len) ==
    IF i >= len \/ h.halt # "run" THEN h
    ELSE FillBytes(Store(h, PtrAdd(bytes, i), i + 1), bytes, i + 1, len)

\* The client initialises the region it was given last: bytes[i] = i + 1
\* for each of its bytes, all of them nonzero and no two the same.
Write ==
    /\ phase = "live" /\ halt = "run"
    /\ writes < MaxWrites
    /\ live # <<>>
    /\ LET last == live[Len(live)]
       IN /\ SetHeap(FillBytes(Heap, last.ptr, 0, last.len))
          /\ ret' = Called("Write", last.ptr, last.len, FALSE, FALSE, FALSE)
    /\ writes' = writes + 1
    /\ UNCHANGED <<cap, threads, raced, phase, handle, live, first>>

\* The arena's structure: every call of the interface, in contract.
Next ==
    \/ Create
    \/ Alloc
    \/ AllocZeroed
    \/ Realloc
    \/ Reset
    \/ Free

Spec == Init /\ [][Next]_vars

\* The same calls, and the client's stores into the regions it is given.
NextMem ==
    \/ CreateMem
    \/ Alloc
    \/ AllocZeroed
    \/ Realloc
    \/ Reset
    \/ Free
    \/ Write

SpecMem == InitMem /\ [][NextMem]_vars

\* ------------------------------------------------- the test program
InitScn == InitWith(ScnMaxRegions)

CreateScn == CreateWith({ScnPageSize})

\* ptr = rkArenaAlloc(arena, numBytes), numBytes one of ScnSizes
AllocScn ==
    /\ phase = "live" /\ halt = "run"
    /\ \E numBytes \in ScnSizes, grant \in Grants :
         LET r == rkArenaAlloc(Heap, handle, numBytes, grant)
         IN /\ SetHeap(r.h)
            /\ Returned("Alloc", r, numBytes, grant, NullPtr, 0)
    /\ UNCHANGED <<cap, threads, raced, phase, handle, writes>>

\* The calls of the test program, in any order and number.
NextScn ==
    \/ CreateScn
    \/ AllocScn
    \/ Reset
    \/ Free

SpecScn == InitScn /\ [][NextScn]_vars

\* ------------------------------------- two threads, no synchronisation
\* rkArenaAlloc statement by statement: each action is one thread's next
\* load or store of shared memory, with the local computation that follows.
Busy(t) == threads[t].pc # "idle"
AllIdle == \A t \in Threads : ~Busy(t)

\* Thread t moves to frame f; the run is a race once a thread moves while
\* another is inside rkArenaAlloc.
Moves(t, f) ==
    /\ threads' = [threads EXCEPT ![t] = f]
    /\ raced' = (raced \/ \E u \in Threads \ {t} : Busy(u))

InitRace == InitWith(RaceMaxRegions)

CreateRace == CreateWith(MemPageSizes)

\* Thread t calls rkArenaAlloc(arena, numBytes) and loads the head:
\* currPage = arena->curr.
ReadHead(t) ==
    /\ phase = "live" /\ halt = "run"
    /\ ~Busy(t)
    /\ Len(live) + Cardinality({u \in Threads : Busy(u)}) < RaceMaxOut
    /\ \E numBytes \in 1 .. arenas[handle].pageSize :
         Moves(t, [Idle EXCEPT !.pc = "TestFit", !.numBytes = numBytes,
                               !.currPage = arenas[handle].curr])
    /\ UNCHANGED <<heapVars, cap, phase, handle, live, first, writes, ret>>

\* if (currPage->offset + numBytes > currPage->size)
TestFit(t) ==
    /\ threads[t].pc = "TestFit"
    /\ Moves(t, IF NoRoom(Heap, threads[t].currPage, threads[t].numBytes)
                THEN [threads[t] EXCEPT !.pc = "NewPage"]
                ELSE [threads[t] EXCEPT !.pc = "ReadOffset", !.page = threads[t].currPage])
    /\ UNCHANGED <<heapVars, cap, phase, handle, live, first, writes, ret>>

\* newPage = rkNewPage(arena->pageSize, currPage); if (!newPage) return NULL;
NewPage(t) ==
    /\ threads[t].pc = "NewPage"
    /\ \E grant \in Grants :
         LET r == rkNewPage(Heap, arenas[handle].pageSize, threads[t].currPage, grant)
         IN /\ SetHeap(r.h)
            /\ IF r.ptr = NULL
               THEN /\ Moves(t, Idle)
                    /\ ret' = Called("Alloc", NullPtr, threads[t].numBytes, FALSE, TRUE, FALSE)
               ELSE /\ Moves(t, [threads[t] EXCEPT !.pc = "Link", !.page = r.ptr])
                    /\ ret' = ret
    /\ UNCHANGED <<cap, phase, handle, live, first, writes>>

\* arena->curr = newPage;
Link(t) ==
    /\ threads[t].pc = "Link"
    /\ arenas' = [arenas EXCEPT ![handle].curr = threads[t].page]
    /\ Moves(t, [threads[t] EXCEPT !.pc = "ReadOffset"])
    /\ UNCHANGED <<pages, mem, os, brk, acqLog, relLog, halt, debug, platform, relFails,
                   cap, phase, handle, live, first, writes, ret>>

\* rkAllocFromPage: ptr = page->region + page->offset;
ReadOffset(t) ==
    /\ threads[t].pc = "ReadOffset"
    /\ LET page == pages[threads[t].page]
       IN Moves(t, [threads[t] EXCEPT !.pc = "WriteOffset",
                                      !.ptr = PtrAdd(page.region, page.offset),
                                      !.offset = page.offset])
    /\ UNCHANGED <<heapVars, cap, phase, handle, live, first, writes, ret>>

\* return ptr; with page->offset += numBytes left out.
WriteOffset_NoBump(t) ==
    /\ threads[t].pc = "WriteOffset"
    /\ Moves(t, Idle)
    /\ live' = Append(live, [ptr |-> threads[t].ptr, len |-> threads[t].numBytes])
    /\ first' = IF first = NullPtr THEN threads[t].ptr ELSE first
    /\ ret' = Called("Alloc", threads[t].ptr, threads[t].numBytes, FALSE, FALSE, FALSE)
    /\ UNCHANGED <<heapVars, cap, phase, handle, writes>>

\* page->offset += numBytes; return ptr;  The thread adds to the offset it
\* loaded for ptr or to one it loads again: the compiler may do either.
WriteOffset(t) ==
    /\ threads[t].pc = "WriteOffset"
    /\ \E offset \in {threads[t].offset, pages[threads[t].page].offset} :
         pages' = [pages EXCEPT ![threads[t].page].offset = AddSz(offset, threads[t].numBytes)]
    /\ Moves(t, Idle)
    /\ live' = Append(live, [ptr |-> threads[t].ptr, len |-> threads[t].numBytes])
    /\ first' = IF first = NullPtr THEN threads[t].ptr ELSE first
    /\ ret' = Called("Alloc", threads[t].ptr, threads[t].numBytes, FALSE, FALSE, FALSE)
    /\ UNCHANGED <<arenas, mem, os, brk, acqLog, relLog, halt, debug, platform, relFails,
                   cap, phase, handle, writes>>

\* rkResetArena and rkFreeArena are called while no thread is in rkArenaAlloc.
ResetRace == AllIdle /\ Reset

FreeRace == AllIdle /\ Free

NextRace ==
    \/ CreateRace
    \/ \E t \in Threads :
          \/ ReadHead(t)
          \/ TestFit(t)
          \/ NewPage(t)
          \/ Link(t)
          \/ ReadOffset(t)
          \/ WriteOffset(t)
    \/ ResetRace
    \/ FreeRace

SpecRace == InitRace /\ [][NextRace]_vars

\* ----------------------------------------------------- both platforms
InitOs == InitOn(OsMaxRegions, {"linux", "windows"}, BOOLEAN)

\* The calls of the test program on either platform.
NextOs ==
    \/ CreateMem
    \/ Alloc
    \/ Reset
    \/ Free

SpecOs == InitOs /\ [][NextOs]_vars

\* ------------------------------------------------- the largest pages
\* The page sizes passed: the smallest, and those at which the byte count of
\* rkNewPage, sizeof(rkAllocPage) + size, reaches the end of size_t.
BigPageSizes ==
    {1, SizeMax - SizeofAllocPage - 1, SizeMax - SizeofAllocPage,
     SizeMax - SizeofAllocPage + 1, SizeMax - 1}

InitBig == InitWith(BigMaxRegions)

CreateBig == CreateWith(BigPageSizes)

\* ptr = rkArenaAlloc(arena, numBytes), numBytes one byte or a whole page
AllocBig ==
    /\ phase = "live" /\ halt = "run" /\ Len(live) < MaxOut
    /\ \E numBytes \in {1, arenas[handle].pageSize}, grant \in Grants :
         LET r == rkArenaAlloc(Heap, handle, numBytes, grant)
         IN /\ SetHeap(r.h)
            /\ Returned("Alloc", r, numBytes, grant, NullPtr, 0)
    /\ UNCHANGED <<cap, threads, raced, phase, handle, writes>>

NextBig ==
    \/ CreateBig
    \/ AllocBig
    \/ Reset
    \/ Free

SpecBig == InitBig /\ [][NextBig]_vars

\* ------------------------------------------ the client out of contract
\* The byte counts a client may pass: zero, every count up to one past the
\* largest page, and the largest size_t.
AnySizes == (0 .. MaxPageSize + 1) \cup {SizeMax - 1}

\* The arena pointers a client may pass.
AnyArenas == {NULL, handle}

\* arena->curr with arena == NULL and the assertion compiled out: a load
\* through the null pointer.
NullDeref(arena) == arena = NULL /\ ~debug

InitAny == InitWith(AnyMaxRegions)

ReturnedAny(op, r, n, grant, old, oldSize, arena) ==
    /\ ret' = [Called(op, r.ptr, n, HeadFits(n), ~HeadFits(n) /\ ~grant, Dirty(r.ptr, n))
                 EXCEPT !.old = old, !.oldSize = oldSize, !.nullArena = (arena = NULL)]
    /\ live' = IF r.ptr = NullPtr THEN live ELSE Append(live, [ptr |-> r.ptr, len |-> n])
    /\ first' = IF first = NullPtr THEN r.ptr ELSE first

\* rkCreateArenaWithPageSize(pageSize), any pageSize
CreateAny == CreateWith(0 .. MaxPageSize)

\* rkArenaAlloc(arena, numBytes), any arena and numBytes
AllocAny ==
    /\ phase = "live" /\ halt = "run" /\ Len(live) < MaxOut
    /\ \E arena \in AnyArenas, numBytes \in AnySizes, grant \in Grants :
         LET r == IF NullDeref(arena) THEN FailPtr([Heap EXCEPT !.halt = "ub"])
                  ELSE rkArenaAlloc(Heap, arena, numBytes, grant)
         IN /\ SetHeap(r.h)
            /\ ReturnedAny("Alloc", r, numBytes, grant, NullPtr, 0, arena)
    /\ UNCHANGED <<cap, threads, raced, phase, handle, writes>>

\* rkArenaAllocZeroed(arena, numBytes), any arena and numBytes
AllocZeroedAny ==
    /\ phase = "live" /\ halt = "run" /\ Len(live) < MaxOut
    /\ \E arena \in AnyArenas, numBytes \in AnySizes, grant \in Grants :
         LET r == IF NullDeref(arena) THEN FailPtr([Heap EXCEPT !.halt = "ub"])
                  ELSE rkArenaAllocZeroed(Heap, arena, numBytes, grant)
         IN /\ SetHeap(r.h)
            /\ ReturnedAny("AllocZeroed", r, numBytes, grant, NullPtr, 0, arena)
    /\ UNCHANGED <<cap, threads, raced, phase, handle, writes>>

\* rkArenaRealloc(arena, ptr, oldSize, newSize): any arena, ptr NULL or a
\* region returned since the last reset, any newSize
ReallocAny ==
    /\ phase = "live" /\ halt = "run" /\ Len(live) < MaxOut
    /\ \E arena \in AnyArenas, newSize \in AnySizes, grant \in Grants :
         \E old \in {[ptr |-> NullPtr, len |-> 1]} \cup {live[i] : i \in 1 .. Len(live)} :
           LET r == IF NullDeref(arena) THEN FailPtr([Heap EXCEPT !.halt = "ub"])
                    ELSE rkArenaRealloc(Heap, arena, old.ptr, old.len, newSize, grant)
           IN /\ SetHeap(r.h)
              /\ ReturnedAny("Realloc", r, newSize, grant, old.ptr, old.len, arena)
    /\ UNCHANGED <<cap, threads, raced, phase, handle, writes>>

\* rkResetArena(arena), any arena
ResetAny ==
    /\ phase = "live" /\ halt = "run"
    /\ \E arena \in AnyArenas :
         /\ SetHeap(IF NullDeref(arena) THEN [Heap EXCEPT !.halt = "ub"]
                    ELSE rkResetArena(Heap, arena))
         /\ ret' = [NoCall("Reset") EXCEPT !.nullArena = (arena = NULL)]
    /\ live' = <<>>
    /\ UNCHANGED <<cap, threads, raced, phase, handle, first, writes>>

\* rkFreeArena(arena), any arena
FreeAny ==
    /\ phase = "live" /\ halt = "run"
    /\ \E arena \in AnyArenas :
         /\ SetHeap(IF NullDeref(arena) THEN [Heap EXCEPT !.halt = "ub"]
                    ELSE rkFreeArena(Heap, arena))
         /\ ret' = [NoCall("Free") EXCEPT !.nullArena = (arena = NULL)]
    /\ phase' = "freed"
    /\ live' = <<>>
    /\ UNCHANGED <<cap, threads, raced, handle, first, writes>>

\* Every call of the interface with any arguments, in both builds.
NextAny ==
    \/ CreateAny
    \/ AllocAny
    \/ AllocZeroedAny
    \/ ReallocAny
    \/ ResetAny
    \/ FreeAny

SpecAny == InitAny /\ [][NextAny]_vars


\* ------------------------------------------------------------------ claims
AllocOps == {"Alloc", "AllocZeroed", "Realloc"}

\* The call recorded in ret was an allocating call that returned a pointer.
Succeeded(r) == r.op \in AllocOps /\ r.ptr # NullPtr

\* Two regions share a byte.
Overlap(a, b) ==
    /\ a.ptr.base = b.ptr.base
    /\ a.ptr.off < b.ptr.off + b.len
    /\ b.ptr.off < a.ptr.off + a.len

\* The len bytes at ptr lie in the capacity of one page, inside its mapping.
InOnePage(a) ==
    /\ a.ptr.base \in DOMAIN pages
    /\ a.ptr.off >= pages[a.ptr.base].region.off
    /\ a.ptr.off + a.len <= pages[a.ptr.base].region.off + pages[a.ptr.base].size
    /\ a.ptr.off + a.len <= os[a.ptr.base]

\* C1: the regions returned by successful Alloc, AllocZeroed and Realloc
\* calls since the last Reset, each for 0 < numBytes <= pageSize, are pairwise
\* disjoint, and each has its numBytes bytes inside the capacity of one page.
C1_RegionsDisjoint ==
    phase = "live" =>
        /\ \A i \in 1 .. Len(live) : live[i].len > 0 /\ InOnePage(live[i])
        /\ \A i \in 1 .. Len(live) : \A j \in 1 .. Len(live) :
              i # j => ~Overlap(live[i], live[j])

\* Three regions are out, two of them in one page and one in another, the
\* last one from Realloc.
C1_Witness ==
    /\ phase = "live" /\ Len(live) >= 3
    /\ ret.op = "Realloc" /\ ret.ptr # NullPtr
    /\ \E i \in 1 .. Len(live) : \E j \in 1 .. Len(live) :
          i # j /\ live[i].ptr.base = live[j].ptr.base
    /\ \E i \in 1 .. Len(live) : \E j \in 1 .. Len(live) :
          live[i].ptr.base # live[j].ptr.base

\* C2: an allocating call whose request does not fit the head page, and
\* whose new page the kernel grants, returns the first byte of the region of
\* the page it created; that page is the new head, its offset is exactly
\* numBytes, and the old head's offset is as it was.
C2_NeverSplit ==
    [][(Succeeded(ret') /\ ~HeadFits(ret'.n)) =>
          LET old == arenas[handle].curr
              new == arenas'[handle].curr
          IN /\ new \notin DOMAIN pages
             /\ new \in DOMAIN pages'
             /\ ret'.ptr = pages'[new].region
             /\ pages'[new].offset = ret'.n
             /\ pages'[new].next = old
             /\ pages'[old] = pages[old]]_vars

\* A request that did not fit was served from a fresh page, and the old head
\* keeps a stranded tail.
C2_Witness ==
    /\ Succeeded(ret) /\ ~ret.fit
    /\ Len(Chain) >= 2
    /\ pages[Chain[2]].offset > 0
    /\ pages[Chain[2]].offset < pages[Chain[2]].size
    /\ pages[Chain[1]].offset = ret.n

\* C3: in every state of a live arena every page has 0 <= offset <= size.
C3_OffsetWithinSize ==
    \A p \in DOMAIN pages : 0 <= pages[p].offset /\ pages[p].offset <= pages[p].size

\* A chain of two pages, the head full to its last byte and the older page
\* partly used.
C3_Witness ==
    /\ phase = "live" /\ Len(Chain) >= 2
    /\ pages[Chain[1]].offset = pages[Chain[1]].size
    /\ pages[Chain[2]].offset > 0


\* C4: after Reset, the next allocation returns the address the arena's
\* first allocation returned, whatever was allocated before the Reset and
\* however many pages the chain has grown to.
C4_ResetRewindsToFirst ==
    (phase = "live" /\ Len(live) = 1) => live[1].ptr = first

\* C5: after Free of an arena that Create returned, every region acquired
\* has been released exactly once: as many Release calls as successful
\* Acquire calls, no region released twice, none still held.
C5_FreeReleasesAll ==
    phase = "freed" =>
        /\ halt = "run"
        /\ Len(relLog) = Len(acqLog)
        /\ \A i \in 1 .. Len(relLog) : \A j \in 1 .. Len(relLog) :
              i # j => relLog[i].ptr # relLog[j].ptr
        /\ {relLog[i].ptr : i \in 1 .. Len(relLog)} = {acqLog[i].ptr : i \in 1 .. Len(acqLog)}
        /\ DOMAIN os = {}

\* An arena of three pages has been freed.
C5_Witness ==
    /\ phase = "freed"
    /\ Len(acqLog) >= 4
    /\ Len(relLog) >= 4

\* C6: when Create returns failure, no region acquired during the call is
\* still held.
C6_CreateFailsClean ==
    phase = "failed" => DOMAIN os = {}

\* C7: an allocating call that fails because the kernel refuses the new page
\* leaves the arena as it was (the head, the chain, pageSize, every page's
\* offset, the memory and the regions held), and every later request that
\* fits the head page still succeeds.
C7_FailedAllocNoEffect ==
    [][(ret'.op \in AllocOps /\ ret'.ptr = NullPtr) =>
          /\ arenas' = arenas
          /\ pages' = pages
          /\ mem' = mem
          /\ os' = os
          /\ acqLog' = acqLog
          /\ relLog' = relLog
          /\ halt' = "run"
          /\ live' = live
          /\ \A n \in 1 .. arenas'[handle'].pageSize :
                pages'[arenas'[handle'].curr].offset + n <= pages'[arenas'[handle'].curr].size
                    => \A g \in BOOLEAN : rkArenaAlloc(Heap', handle', n, g).ptr # NullPtr]_vars

\* An Alloc failed on a chain of two pages whose head still has room for a
\* smaller request, while the kernel had regions left to give.
C7_Witness ==
    /\ ret.op = "Alloc" /\ ret.ptr = NullPtr /\ ret.refused
    /\ Len(Chain) >= 2
    /\ pages[HeadPage].offset > 0
    /\ pages[HeadPage].offset < pages[HeadPage].size
    /\ Cardinality(DOMAIN os) < cap

\* C8: an in-contract allocating call returns failure exactly when the
\* request does not fit the head page and the kernel refuses the new page.
C8_FailsOnlyWhenRefused ==
    ret.op \in AllocOps =>
        /\ (ret.ptr = NullPtr) <=> ret.refused
        /\ ret.fit => ret.ptr # NullPtr

\* A request that filled the head page to its last byte was served from it
\* although the kernel would have refused a new page.
C8_Witness ==
    /\ ret.op = "Alloc" /\ ret.ptr # NullPtr /\ ret.fit
    /\ pages[HeadPage].offset = pages[HeadPage].size
    /\ Cardinality(DOMAIN os) = cap
    /\ Len(Chain) >= 2


\* C9: Reset sets the offset of every page of the chain to 0 and changes
\* nothing else: the same pages in the same order, each with its size and
\* its links, the same pageSize and head, the same memory contents, and no
\* Acquire or Release call.
C9_ResetOnlyRewinds ==
    [][ret'.op = "Reset" =>
          /\ DOMAIN pages' = DOMAIN pages
          /\ \A p \in DOMAIN pages : pages'[p] = [pages[p] EXCEPT !.offset = 0]
          /\ Chain' = Chain
          /\ arenas' = arenas
          /\ mem' = mem
          /\ os' = os
          /\ acqLog' = acqLog
          /\ relLog' = relLog
          /\ halt' = halt]_vars

\* A chain of two pages has been reset while both pages hold bytes the
\* client stored.
C9_Witness ==
    /\ ret.op = "Reset"
    /\ Len(Chain) >= 2
    /\ \A i \in 1 .. Len(Chain) : pages[Chain[i]].offset = 0
    /\ \A i \in 1 .. Len(Chain) : Dirty(pages[Chain[i]].region, pages[Chain[i]].size)

\* C10: a successful AllocZeroed(n) returns n bytes that are all zero,
\* whatever they held before; it returns what Alloc(n) returns, failure
\* included, leaves the arena and the regions held as Alloc(n) leaves them,
\* and stores to no byte outside the region it returns.
C10_ZeroedLikeAlloc ==
    [][ret'.op = "AllocZeroed" =>
          LET a == rkArenaAlloc(Heap, handle, ret'.n, ~ret'.refused)
              p == ret'.ptr
          IN /\ p = a.ptr
             /\ arenas' = a.h.arenas
             /\ pages' = a.h.pages
             /\ os' = a.h.os
             /\ acqLog' = a.h.acqLog
             /\ relLog' = a.h.relLog
             /\ halt' = "run"
             /\ DOMAIN mem' = DOMAIN a.h.mem
             /\ \A b \in DOMAIN mem' : \A k \in DOMAIN mem'[b] :
                   mem'[b][k] = IF p # NullPtr /\ b = p.base /\ k >= p.off /\ k < p.off + ret'.n
                                THEN 0
                                ELSE a.h.mem[b][k]]_vars

\* AllocZeroed returned two bytes of which one was nonzero when it was
\* called: bytes the client stored before a Reset.
C10_Witness ==
    /\ ret.op = "AllocZeroed" /\ ret.ptr # NullPtr
    /\ ret.dirty /\ ret.n >= 2
    /\ Len(live) = 1

\* C11: a successful Realloc of a region of oldSize bytes returned since the
\* last Reset, with oldSize <= newSize <= pageSize, returns newSize bytes in
\* one page that share no byte with the old region and whose first oldSize
\* bytes are the old region's bytes at the call; the old bytes are unchanged;
\* and no later successful call before the next Reset returns a byte of a
\* region already out, the old one included.
C11_ReallocCopies ==
    [][/\ (ret'.op = "Realloc" /\ ret'.ptr # NullPtr) =>
            LET old == [ptr |-> ret'.old, len |-> ret'.oldSize]
                new == [ptr |-> ret'.ptr, len |-> ret'.n]
            IN /\ \E i \in 1 .. Len(live) : live[i] = old
               /\ old.len <= new.len
               /\ ~Overlap(old, new)
               /\ halt' = "run"
               /\ new.ptr.base \in DOMAIN pages' /\ old.ptr.base \in DOMAIN pages'
               /\ new.ptr.off >= pages'[new.ptr.base].region.off
               /\ new.ptr.off + new.len <=
                     pages'[new.ptr.base].region.off + pages'[new.ptr.base].size
               /\ \A k \in 0 .. old.len - 1 :
                     /\ mem'[new.ptr.base][new.ptr.off + k] = mem[old.ptr.base][old.ptr.off + k]
                     /\ mem'[old.ptr.base][old.ptr.off + k] = mem[old.ptr.base][old.ptr.off + k]
               /\ live' = Append(live, new)
       /\ Succeeded(ret') =>
            \A i \in 1 .. Len(live) :
               ~Overlap(live[i], [ptr |-> ret'.ptr, len |-> ret'.n])]_vars

\* Realloc returned a larger region for bytes the client had stored, and it
\* starts with those bytes.
C11_Witness ==
    /\ ret.op = "Realloc" /\ ret.ptr # NullPtr
    /\ ret.oldSize >= 1
    /\ Dirty(ret.old, ret.oldSize)
    /\ \A k \in 0 .. ret.oldSize - 1 :
          mem[ret.ptr.base][ret.ptr.off + k] = mem[ret.old.base][ret.old.off + k]
    /\ ret.n > ret.oldSize

\* C12: in both builds and for every numBytes a size_t can hold, an Alloc
\* on an arena of page size > 0 that returns a pointer returns numBytes bytes
\* inside the capacity of one page and leaves that page with offset <= size;
\* a request larger than the page size is not answered with a pointer.
C12_NeverShort ==
    (ret.op = "Alloc" /\ ret.ptr # NullPtr /\ arenas[handle].pageSize > 0) =>
        /\ InOnePage([ptr |-> ret.ptr, len |-> ret.n])
        /\ pages[ret.ptr.base].offset <= pages[ret.ptr.base].size
        /\ ret.n <= arenas[handle].pageSize

\* The call recorded in r broke the contract of the interface.
ContractViolated(r) ==
    \/ r.nullArena
    \/ r.op \in AllocOps /\ r.n = 0
    \/ r.op = "Alloc" /\ r.n > arenas[handle].pageSize
    \/ r.op = "Realloc" /\ (r.old = NullPtr \/ r.oldSize > r.n)
    \/ r.op = "Create" /\ r.n = 0

\* C13: in a debug build a call that breaks the contract (a NULL arena, a
\* request for 0 bytes, an Alloc of more than pageSize bytes, a Realloc of a
\* NULL ptr or with oldSize > newSize, a Create with pageSize 0) ends in
\* rkArenaPanic and returns no pointer and no handle.
C13_ViolationAborts ==
    (debug /\ ContractViolated(ret)) =>
        /\ halt = "panic"
        /\ ret.ptr = NullPtr
        /\ ret.op = "Create" => handle = NULL

\* C14: a successful Create(pageSize) leaves an arena whose pageSize is the
\* argument and whose chain is one page with offset 0; from then on no call
\* changes the arena's pageSize or the size of a page, and every page held,
\* the first and those made later, has size = pageSize.
C14_PageSizeFixed ==
    [][/\ (ret'.op = "Create" /\ handle' # NULL) =>
            /\ arenas'[handle'].pageSize = ret'.n
            /\ Len(Chain') = 1
            /\ DOMAIN pages' = {Chain'[1]}
            /\ pages'[Chain'[1]].offset = 0
       /\ phase' = "live" =>
            \A p \in DOMAIN pages' : pages'[p].size = arenas'[handle'].pageSize
       /\ (phase = "live" /\ phase' = "live") =>
            /\ arenas'[handle'].pageSize = arenas[handle].pageSize
            /\ \A p \in DOMAIN pages : p \in DOMAIN pages' /\ pages'[p].size = pages[p].size]_vars

\* Three pages of two bytes each are held after requests of one byte and of
\* two bytes.
C14_Witness ==
    /\ phase = "live" /\ arenas[handle].pageSize = 2
    /\ Len(Chain) = 3
    /\ \A i \in 1 .. 3 : pages[Chain[i]].size = 2
    /\ \E i \in 1 .. Len(live) : live[i].len = 1

\* C15: with pageSize 80 and no refusal by the backend: after Create,
\* Alloc(20) returns a pointer and leaves the head at offset 20; Alloc(70)
\* then makes a new page, returns its first 70 bytes and leaves a chain of two
\* pages with offsets 70 and 20 from the head; Reset then leaves the two
\* pages chained with offsets 0 and 0; Free then leaves no region held.
C15_Scenario ==
    [][/\ (ret.op = "Create" /\ ret'.op = "Alloc" /\ ret'.n = 20) =>
            /\ ret'.ptr # NullPtr
            /\ Len(Chain') = 1
            /\ pages'[HeadPage'].offset = 20
       /\ (/\ ret.op = "Alloc" /\ ret.n = 20 /\ ret.ptr # NullPtr
           /\ Len(live) = 1 /\ Len(Chain) = 1
           /\ ret'.op = "Alloc" /\ ret'.n = 70 /\ ~ret'.refused) =>
            /\ ret'.ptr # NullPtr
            /\ Len(Chain') = 2
            /\ Chain'[2] = Chain[1]
            /\ pages'[Chain'[1]].offset = 70
            /\ pages'[Chain'[2]].offset = 20
            /\ ret'.ptr = pages'[Chain'[1]].region
            /\ ret'.ptr.off + 70 <= os'[ret'.ptr.base]
       /\ (/\ ret.op = "Alloc" /\ ret.n = 70 /\ ret.ptr # NullPtr
           /\ Len(live) = 2 /\ live[1].len = 20 /\ Len(Chain) = 2
           /\ ret'.op = "Reset") =>
            /\ Chain' = Chain
            /\ pages'[Chain'[1]].offset = 0
            /\ pages'[Chain'[2]].offset = 0
       /\ (ret.op = "Reset" /\ Len(Chain) = 2 /\ ret'.op = "Free") =>
            /\ DOMAIN os' = {}
            /\ DOMAIN pages' = {} /\ DOMAIN arenas' = {}
            /\ halt' = "run"]_vars

\* The scenario has run to its end: the arena of 80-byte pages was freed
\* right after a Reset, having mapped a header and two pages of 84 bytes.
C15_Witness ==
    /\ ret.op = "Free" /\ phase = "freed"
    /\ Len(acqLog) = 3 /\ Len(relLog) = 3
    /\ acqLog[2].numBytes = SizeofAllocPage + ScnPageSize
    /\ acqLog[3].numBytes = SizeofAllocPage + ScnPageSize
    /\ first # NullPtr

\* The backend calls of a step: the mappings made, the mappings the kernel
\* refused, and the unmappings.
Acquired == Len(acqLog') - Len(acqLog)
Refusals == IF ret'.refused THEN 1 ELSE 0
Released == Len(relLog') - Len(relLog)

\* C16 as stated: every call of the interface (Create, Alloc, AllocZeroed,
\* Realloc, Reset, Free) makes at most one call of the backend, Acquire or
\* Release, before it returns.
C16_OneOsCall ==
    [][Acquired + Refusals + Released <= 1]_vars

\* C16: Alloc, AllocZeroed and Realloc make at most one Acquire, and make it
\* exactly when the request does not fit the head, and make no Release; Reset
\* makes no backend call; Create makes no Release and at most two Acquires,
\* two when it returns an arena; Free makes no Acquire and one Release for
\* each page of the chain and one for the header.
C16_OsCallsPerCall ==
    [][/\ ret'.op = "Create" =>
            /\ Released = 0
            /\ Acquired + Refusals <= 2
            /\ handle' # NULL => Acquired = 2
       /\ ret'.op \in AllocOps =>
            /\ Released = 0
            /\ Acquired + Refusals = (IF ret'.fit THEN 0 ELSE 1)
       /\ ret'.op = "Reset" => Acquired = 0 /\ Released = 0
       /\ ret'.op = "Free" => Acquired = 0 /\ Released = Len(Chain) + 1]_vars

\* An arena made with two Acquires was freed with three Releases.
C16_Witness ==
    /\ ret.op = "Free"
    /\ Len(acqLog) = 3
    /\ Len(relLog) = 3
    /\ DOMAIN os = {}

\* Two of the regions out share a byte.
RaceOverlap ==
    \E i \in 1 .. Len(live) : \E j \in 1 .. Len(live) :
       i < j /\ Overlap(live[i], live[j])

\* A page is mapped that the chain from the head does not reach, so that
\* rkFreeArena will not release it.
LostPage ==
    \E p \in DOMAIN pages : \A i \in 1 .. Len(Chain) : Chain[i] # p

\* C17: rkArenaAlloc is safe only without interleaving: when two threads
\* call it on one arena, two regions out overlap, or a page is lost to the
\* chain, only in runs where a thread has taken a step of rkArenaAlloc (read
\* head, test fit, create page, link page, read offset, write offset) while
\* the other was inside it; and such a state is reachable (C17_Witness).
C17_UnsafeOnlyIfRaced ==
    /\ RaceOverlap => raced
    /\ (phase = "live" /\ AllIdle /\ LostPage) => raced

\* Both threads have returned from interleaved calls: two of the regions
\* they hold overlap, and a page one of them made is not reachable from the
\* head.
C17_Witness ==
    /\ phase = "live" /\ AllIdle /\ raced
    /\ RaceOverlap
    /\ LostPage

\* A step leaves the chain as it was or puts one page, mapped in this step
\* and linked to the previous head, in front of it.
Prepends ==
    \A old \in {Chain} : \A new \in {Chain'} :
       \/ new = old
       \/ /\ Len(new) = Len(old) + 1
          /\ new = <<new[1]>> \o old
          /\ new[1] \notin DOMAIN pages
          /\ pages'[new[1]].next = old[1]

\* The chain read from the head lists the pages mapped, newest first: it is
\* the log of the mappings after the header's, reversed.
NewestFirst ==
    \A chain \in {Chain} :
       /\ Len(acqLog) = Len(chain) + 1
       /\ \A i \in 1 .. Len(chain) : chain[i] = acqLog[Len(acqLog) + 1 - i].ptr

\* C18 as stated: an in-contract Alloc acquires a new page if and only if
\* head.offset + numBytes > head.size; the new page becomes the head with
\* next the previous head, so that the chain lists the pages in reverse order
\* of creation; and no call other than Free removes or reorders a page.
C18_PageIffNoRoom ==
    [][/\ ret'.op \in AllocOps =>
            (Cardinality(DOMAIN pages') = Cardinality(DOMAIN pages) + 1 <=> ~ret'.fit)
       /\ (phase = "live" /\ ret'.op # "Free") => Prepends
       /\ phase' = "live" => NewestFirst']_vars

\* C18: an in-contract Alloc asks the backend for a new page if and only if
\* head.offset + numBytes > head.size, and acquires one if and only if, in
\* addition, the backend grants it; the new page becomes the head with next
\* the previous head, so that the chain lists the pages in reverse order of
\* creation; and no call other than Free removes or reorders a page.
C18_LazyPrepend ==
    [][/\ ret'.op \in AllocOps =>
            /\ Acquired + Refusals = 1 <=> ~ret'.fit
            /\ Cardinality(DOMAIN pages') = Cardinality(DOMAIN pages) + 1
                  <=> (~ret'.fit /\ ~ret'.refused)
       /\ (phase = "live" /\ ret'.op # "Free") => Prepends
       /\ phase' = "live" => NewestFirst']_vars

\* The third page of a chain has just been made for a request that did not
\* fit the head: it is the head, linked to the page before it.
C18_Witness ==
    /\ ret.op \in AllocOps /\ ~ret.fit /\ ret.ptr # NullPtr
    /\ Len(Chain) = 3
    /\ ret.ptr.base = Chain[1]
    /\ pages[Chain[1]].next = Chain[2]
    /\ Chain[1] = acqLog[4].ptr

RECURSIVE EndsAtNull(_, _)
\* The walk p = p->next from p, having visited the pages seen, reaches NULL
\* through mapped pages without coming to a page twice.
EndsAtNull(p, seen) ==
    IF p = NULL THEN TRUE
    ELSE IF p \in seen \/ p \notin DOMAIN pages THEN FALSE
    ELSE \A q \in {pages[p].next} : \A visited \in {seen \cup {p}} :
            EndsAtNull(q, visited)

\* The chain is acyclic and ends in NULL, holds every page mapped once, and
\* has one page more than Allocs have mapped.
ChainEnds ==
    \A chain \in {Chain} :
       /\ Len(chain) = Cardinality(DOMAIN pages)
       /\ \A i \in 1 .. Len(chain) : \A j \in 1 .. Len(chain) :
             chain[i] = chain[j] => i = j
       /\ Len(chain) = 1 + (Len(acqLog) - 2)

\* C19: the chain of a live arena is acyclic and ends in NULL, holds every
\* page mapped once, and has 1 + (the number of Allocs that made a page)
\* pages; so the walks of Reset and Free end: Reset writes the offset of each
\* page of the chain, and Free releases each page of the chain once, in chain
\* order, then the header, and stops.
C19_WalksTerminate ==
    [][/\ phase' = "live" =>
            /\ EndsAtNull(HeadPage, {})'
            /\ ChainEnds'
       /\ ret'.op = "Reset" =>
            \A chain \in {Chain} :
               /\ Chain' = chain
               /\ \A i \in 1 .. Len(chain) : pages'[chain[i]].offset = 0
       /\ ret'.op = "Free" =>
            \A chain \in {Chain} :
               /\ halt' = "run"
               /\ Len(relLog') = Len(relLog) + Len(chain) + 1
               /\ \A i \in 1 .. Len(chain) : relLog'[Len(relLog) + i].ptr = chain[i]
               /\ relLog'[Len(relLog')].ptr = handle]_vars

\* Free has walked a chain of three pages, newest first, and released the
\* header after them.
C19_Witness ==
    /\ ret.op = "Free" /\ halt = "run"
    /\ Len(relLog) = 4
    /\ Len(acqLog) = 4
    /\ \A i \in 1 .. 3 : relLog[i].ptr = acqLog[5 - i].ptr
    /\ relLog[4].ptr = handle

\* The Release calls of a step, in order.
ReleasedNow == SubSeq(relLog', Len(relLog) + 1, Len(relLog'))

\* C20: Free releases every page of the chain, following each page's next
\* as it stood before the page was released, with the byte count the page was
\* acquired with, which is the page header's size plus the page's recorded
\* size; after all pages it releases the arena header with the byte count the
\* header was acquired with.
C20_FreeSizesMatch ==
    [][ret'.op = "Free" =>
          LET n == Len(Chain)
          IN /\ Len(ReleasedNow) = n + 1
             /\ \A i \in 1 .. n :
                   /\ ReleasedNow[i].ptr = Chain[i]
                   /\ ReleasedNow[i].numBytes = SizeofAllocPage + pages[Chain[i]].size
                   /\ \E j \in 1 .. Len(acqLog) : acqLog[j] = ReleasedNow[i]
             /\ ReleasedNow[n + 1].ptr = handle
             /\ ReleasedNow[n + 1] = acqLog[1]
             /\ halt' = "run"]_vars

\* Free has released two pages of two bytes, each by the page header's size
\* plus two, and then the header by its own size.
C20_Witness ==
    /\ ret.op = "Free"
    /\ Len(relLog) = 3
    /\ relLog[1].numBytes = SizeofAllocPage + 2
    /\ relLog[2].numBytes = SizeofAllocPage + 2
    /\ relLog[3] = [ptr |-> handle, numBytes |-> SizeofArena]

C22_PageHoldsSize ==
    \A p \in DOMAIN pages :
       pages[p].size > 0 => os[p] >= SizeofAllocPage + pages[p].size

\* C23: on each platform, in a debug build, the assertion of rkOsFree passes
\* exactly when the release call reports success (munmap returns 0,
\* VirtualFreeEx returns nonzero): a Free of a valid arena ends without
\* rkArenaPanic if and only if the kernel released what it was asked to.
C23_AssertMatchesRelease ==
    [][(ret'.op = "Free" /\ debug) => (halt' = "run" <=> ~relFails)]_vars

=============================================================================
